---- MODULE Spec2Model ----
(***************************************************************************)
(* PyHail, src/pyhail/mesh_ppi_new.py: MESH retrieval on PPI sweeps.       *)
(*                                                                         *)
(* Spec        main() as a control-flow state machine: argument checks,    *)
(*             sort by fixed angle, sweep-count check, and the per-sweep   *)
(*             loop up to the statement at which the call ends.            *)
(* SpecKE      the reflectivity part of the per-sweep loop body            *)
(*             (lines 112-135) applied to one sweep array.                 *)
(* SpecDz      the vertical-spacing statements (lines 116-123).            *)
(* SpecColumn  the column integration (lines 154-184).                     *)
(* SpecPosh    the POSH retrieval (lines 211-218).                         *)
(*                                                                         *)
(* Python indices are 0-based; TLA+ sequences are 1-based, so element k of *)
(* a Python list is element k+1 of the sequence that models it.            *)
(***************************************************************************)
EXTENDS Integers, Sequences, FiniteSets, TLC

VARIABLES
    pc,                    \* main: control location
    radar_band,            \* main: argument
    levels,                \* main: argument ("None" or a pair of heights)
    mesh_method,           \* main: argument
    correct_cband_refl,    \* main: argument
    caller_elevation,      \* main: the caller's elevation_dataset
    sort_idx,              \* main: local, line 76
    reflectivity_dataset,  \* main: local list of array references, line 77
    elevation_dataset,     \* main: local list, line 78
    i,                     \* main: loop index of line 98
    z,                     \* main: local z of line 104 (an array descriptor)
    raised,                \* main: the exception that ended the call, or "none"
    steps,                 \* main: the numeric stages executed so far
    ke,                    \* SpecKE: state of the reflectivity block
    dzs,                   \* SpecDz: state of the dz block
    col,                   \* SpecColumn: state of the column integration
    ps                     \* SpecPosh: state of the POSH retrieval

mainVars == <<pc, radar_band, levels, mesh_method, correct_cband_refl,
              caller_elevation, sort_idx, reflectivity_dataset,
              elevation_dataset, i, z, raised, steps>>
fnVars == <<ke, dzs, col, ps>>
vars == <<mainVars, fnVars>>

Idle == [stage |-> "idle"]

\* ---------------------------------------------------------------- bounds
\* longest sweep list enumerated with arbitrary (possibly equal) angles
MaxTie == 3
\* longest sweep list enumerated (strictly ascending or descending angles)
MaxSweeps == 11
\* elevation angles of the short lists are 1..MaxElev
MaxElev == 2

\* ------------------------------------------------------ program constants
\* line 84: len(elevation_dataset) <= 1 is fatal
FatalSweeps == 1
\* line 86: len(elevation_dataset) < 10 raises Warning
RecommendedSweeps == 10
\* line 118-122: number of subscripts in z[i + 1, :, :]
DzSubscripts == 3
\* lines 101-102: np.meshgrid of two 1-D inputs yields 2-D arrays
MeshgridNdim == 2

\* common.antenna_to_cartesian (line 104) transforms its grids element by
\* element: the arrays it returns have as many dimensions as its arguments
AntennaToCartesianNdim(n) == n

\* ------------------------------------------------------------- helpers
Ascending(n) == [k \in 1..n |-> k]
Descending(n) == [k \in 1..n |-> n + 1 - k]

SeqsUpTo(S, n) == UNION {[1..m -> S] : m \in 0..n}

\* the elevation_dataset arguments enumerated
InputElevations ==
    SeqsUpTo(1..MaxElev, MaxTie)
        \cup {Ascending(n) : n \in 0..MaxSweeps}
        \cup {Descending(n) : n \in 0..MaxSweeps}

Bands == {"C", "S", "X"}
Methods == {"witt1998", "mh2019_75", "mh2019_95", "other"}
LevelArgs == {"None", <<3000, 5000>>, <<5000, 3000>>}

\* line 60
BandOK(b) == b \in {"C", "S"}
LevelsOK_unchecked(l) == TRUE
\* line 63
LevelsOK(l) == l # "None"

\* line 76: np.argsort(elevation_dataset) with the default kind (quicksort),
\* which numpy documents as not stable: every index order that lists the
\* angles in ascending order is a possible result.
RECURSIVE ArgsortFrom(_, _)
ArgsortFrom(e, rem) ==
    IF rem = {} THEN {<<>>}
    ELSE LET lo == CHOOSE a \in {e[k] : k \in rem} :
                       \A b \in {e[k] : k \in rem} : a <= b
         IN UNION {{<<k>> \o s : s \in ArgsortFrom(e, rem \ {k})} :
                       k \in {j \in rem : e[j] = lo}}
Argsort(e) == ArgsortFrom(e, 1..Len(e))

\* lines 77-80: [dataset[i] for i in sort_idx]
Reorder(dataset, idx) == [k \in 1..Len(idx) |-> dataset[idx[k]]]

\* ------------------------------------------------------------ main: Init
Init ==
    /\ pc = "check_band"
    /\ radar_band \in Bands
    /\ levels \in LevelArgs
    /\ mesh_method \in Methods
    /\ correct_cband_refl \in BOOLEAN
    /\ caller_elevation \in InputElevations
    /\ sort_idx = <<>>
    /\ reflectivity_dataset = [k \in 1..Len(caller_elevation) |-> <<"caller", k>>]
    /\ elevation_dataset = caller_elevation
    /\ i = 0
    /\ z = "unset"
    /\ raised = "none"
    /\ steps = {}
    /\ ke = Idle /\ dzs = Idle /\ col = Idle /\ ps = Idle

Raise(e) ==
    /\ raised' = e
    /\ pc' = "done"

\* lines 59-61
CheckBand ==
    /\ pc = "check_band"
    /\ IF ~BandOK(radar_band)
       THEN Raise("ValueError_band")
       ELSE pc' = "check_levels" /\ UNCHANGED raised
    /\ UNCHANGED <<radar_band, levels, mesh_method, correct_cband_refl,
                   caller_elevation, sort_idx, reflectivity_dataset,
                   elevation_dataset, i, z, steps, fnVars>>

\* lines 62-64
CheckLevels ==
    /\ pc = "check_levels"
    /\ IF ~LevelsOK(levels)
       THEN Raise("ValueError_levels")
       ELSE pc' = "sort" /\ UNCHANGED raised
    /\ UNCHANGED <<radar_band, levels, mesh_method, correct_cband_refl,
                   caller_elevation, sort_idx, reflectivity_dataset,
                   elevation_dataset, i, z, steps, fnVars>>

\* lines 66-81: min/max of levels, sort by fixed angle into new local lists
SortSweeps ==
    /\ pc = "sort"
    /\ \E idx \in Argsort(elevation_dataset) :
          /\ sort_idx' = idx
          /\ reflectivity_dataset' = Reorder(reflectivity_dataset, idx)
          /\ elevation_dataset' = Reorder(elevation_dataset, idx)
    /\ steps' = steps \cup {"sort"}
    /\ pc' = "check_count"
    /\ UNCHANGED <<radar_band, levels, mesh_method, correct_cband_refl,
                   caller_elevation, i, z, raised, fnVars>>

\* lines 83-87
CheckCount ==
    /\ pc = "check_count"
    /\ IF Len(elevation_dataset) <= FatalSweeps
       THEN Raise("Exception_sweeps")
       ELSE IF Len(elevation_dataset) < RecommendedSweeps
       THEN Raise("Warning_sweeps")
       ELSE pc' = "geometry" /\ UNCHANGED raised
    /\ UNCHANGED <<radar_band, levels, mesh_method, correct_cband_refl,
                   caller_elevation, sort_idx, reflectivity_dataset,
                   elevation_dataset, i, z, steps, fnVars>>

\* lines 98-111: meshgrid, antenna_to_cartesian, append x, y, z
Geometry ==
    /\ pc = "geometry"
    /\ z' = [ndim |-> AntennaToCartesianNdim(MeshgridNdim), sweep |-> i]
    /\ steps' = steps \cup {"geometry"}
    /\ pc' = "cband"
    /\ UNCHANGED <<radar_band, levels, mesh_method, correct_cband_refl,
                   caller_elevation, sort_idx, reflectivity_dataset,
                   elevation_dataset, i, raised, fnVars>>

\* lines 112-115: the corrected reflectivity is a new array bound to the
\* local list element
CBand ==
    /\ pc = "cband"
    /\ IF radar_band = "C" /\ correct_cband_refl
       THEN reflectivity_dataset' =
                [reflectivity_dataset EXCEPT ![i + 1] = <<"new", i>>]
       ELSE UNCHANGED reflectivity_dataset
    /\ steps' = steps \cup {"cband"}
    /\ pc' = "dz"
    /\ UNCHANGED <<radar_band, levels, mesh_method, correct_cband_refl,
                   caller_elevation, sort_idx, elevation_dataset, i, z,
                   raised, fnVars>>

\* lines 116-123: z[i + 1, :, :] subscripts the local array z
DzMain ==
    /\ pc = "dz"
    /\ z.ndim < DzSubscripts
    /\ Raise("IndexError_dz")
    /\ steps' = steps \cup {"dz"}
    /\ UNCHANGED <<radar_band, levels, mesh_method, correct_cband_refl,
                   caller_elevation, sort_idx, reflectivity_dataset,
                   elevation_dataset, i, z, fnVars>>

Next ==
    \/ CheckBand
    \/ CheckLevels
    \/ SortSweeps
    \/ CheckCount
    \/ Geometry
    \/ CBand
    \/ DzMain

Spec == Init /\ [][Next]_vars

\* ------------------------------------------------- claims on main (Spec)
ValidArgs ==
    /\ radar_band \in {"C", "S"}
    /\ levels # "None"
    /\ mesh_method \in {"witt1998", "mh2019_75", "mh2019_95"}

\* C1: with valid band, levels and method and 2..9 sweeps, "fewer than 10
\* sweeps" is only an advisory: the call is not ended by it.
C1_AdvisoryIsNonFatal ==
    (ValidArgs /\ Len(caller_elevation) \in 2..9) => raised # "Warning_sweeps"

\* C2: once validation passes (valid band, levels, method, at least 2
\* sweeps) the call runs to completion: it is ended by no exception (the
\* advisory of C1 left aside).
C2_RunsToCompletion ==
    (ValidArgs /\ Len(caller_elevation) >= 2)
        => raised \in {"none", "Warning_sweeps"}

\* C3 as stated: an unsupported band, a missing level pair or an
\* unrecognised MESH method is detected before any numeric work: on such an
\* input no stage (sort, preprocessing, integration) ever executes.
C3_InvalidArgsBeforeWork ==
    ~ValidArgs => steps = {}

\* C3 amended: an unsupported band or a missing level pair is detected
\* before any numeric work: no stage executes and the call ends with the
\* invalid-argument error.
C3_BandAndLevelsBeforeWork ==
    (radar_band \notin {"C", "S"} \/ levels = "None")
        => /\ steps = {}
           /\ pc = "done" => raised \in {"ValueError_band", "ValueError_levels"}

C3_Witness ==
    /\ pc = "done"
    /\ raised = "ValueError_levels"
    /\ levels = "None"
    /\ Len(caller_elevation) >= 2
    /\ steps = {}

\* the index order a stable sort yields: ties keep their original order
RECURSIVE StableArgsortFrom(_, _)
StableArgsortFrom(e, rem) ==
    IF rem = {} THEN <<>>
    ELSE LET k == CHOOSE j \in rem :
                      \A m \in rem : e[j] < e[m] \/ (e[j] = e[m] /\ j <= m)
         IN <<k>> \o StableArgsortFrom(e, rem \ {k})

\* C5: the sort is stable: sweeps with equal elevation angle keep their
\* original relative order, so the sorted sweep set (and with it every
\* output) is the one of the stable elevation order.
C5_SortIsStable ==
    "sort" \in steps
        => sort_idx = StableArgsortFrom(caller_elevation, 1..Len(caller_elevation))

\* ======================================================================
\* SpecKE: lines 112-135 applied to one cell of one sweep array.
\* Reflectivity and weights are fixed-point numbers in millionths
\* (Micro = 1.0): a caller value of Z dB is Z * Micro.
\* ======================================================================
Micro == 1000 * 1000

\* caller reflectivity values are the whole dB values -MaxZ..MaxZ
MaxZ == 130

\* line 67
Zl == 40
\* line 68
Zu == 50
\* line 131
ClipHi == 100
\* line 132
ClipLo == -100

\* line 114: reflectivity * 1.113 - 3.929
CBandCorrection(v) == (v \div 1000) * 1113 - 3929000

ReflectivityWeights_noFloor(v) ==
    LET w0 == (v - Zl * Micro) \div (Zu - Zl)
        w2 == IF v >= Zu * Micro THEN Micro ELSE w0
    IN  IF w2 > Micro THEN Micro ELSE w2

\* lines 125-129, statement by statement
ReflectivityWeights(v) ==
    LET w0 == (v - Zl * Micro) \div (Zu - Zl)
        w1 == IF v <= Zl * Micro THEN 0 ELSE w0
        w2 == IF v >= Zu * Micro THEN Micro ELSE w1
        w3 == IF w2 < 0 THEN 0 ELSE w2
    IN  IF w3 > Micro THEN Micro ELSE w3

\* lines 131-132
ClipDBZ(v) ==
    LET c == IF v > ClipHi * Micro THEN ClipHi * Micro ELSE v
    IN  IF c < ClipLo * Micro THEN ClipLo * Micro ELSE c

\* line 134: (5.0e-6) * 10 ** (0.084 * Z) * weights, kept as its factors:
\* the value is scale[1] * 10^scale[2] * 10^(pow10 / Micro) * weight / Micro
HailKE(v, w) == [scale |-> <<5, -6>>, pow10 |-> 84 * (v \div 1000), weight |-> w]

Sign(n) == IF n > 0 THEN 1 ELSE IF n < 0 THEN -1 ELSE 0
\* a power of ten is positive, so the sign is that of the other factors
KESign(k) == Sign(k.scale[1]) * Sign(k.weight)

\* the array reflectivity_dataset[i] refers to
KEArray(k) == IF k.ref = "caller" THEN k.caller ELSE k.new

InitKE ==
    /\ \E zin \in -MaxZ..MaxZ, b \in {"C", "S"}, c \in BOOLEAN :
          ke = [stage |-> "cband", radar_band |-> b, correct_cband_refl |-> c,
                caller0 |-> zin * Micro, caller |-> zin * Micro,
                ref |-> "caller", new |-> "none",
                z_used |-> "none", weights |-> "none", hail_ke |-> "none"]
    /\ pc = "idle" /\ radar_band = "S" /\ levels = "None"
    /\ mesh_method = "mh2019_75" /\ correct_cband_refl = TRUE
    /\ caller_elevation = <<>> /\ sort_idx = <<>>
    /\ reflectivity_dataset = <<>> /\ elevation_dataset = <<>>
    /\ i = 0 /\ z = "unset" /\ raised = "none" /\ steps = {}
    /\ dzs = Idle /\ col = Idle /\ ps = Idle

\* lines 112-115: the product is a new array; the list element is rebound
KE_CBand ==
    /\ ke.stage = "cband"
    /\ IF ke.radar_band = "C" /\ ke.correct_cband_refl
       THEN ke' = [ke EXCEPT !.stage = "weights", !.ref = "new",
                             !.new = CBandCorrection(KEArray(ke))]
       ELSE ke' = [ke EXCEPT !.stage = "weights"]
    /\ UNCHANGED <<mainVars, dzs, col, ps>>

\* lines 124-129
KE_Weights ==
    /\ ke.stage = "weights"
    /\ ke' = [ke EXCEPT !.stage = "clip", !.z_used = KEArray(ke),
                        !.weights = ReflectivityWeights(KEArray(ke))]
    /\ UNCHANGED <<mainVars, dzs, col, ps>>

\* lines 130-132: masked assignment into the array the list element refers to
KE_Clip ==
    /\ ke.stage = "clip"
    /\ IF ke.ref = "caller"
       THEN ke' = [ke EXCEPT !.stage = "hail_ke", !.caller = ClipDBZ(ke.caller)]
       ELSE ke' = [ke EXCEPT !.stage = "hail_ke", !.new = ClipDBZ(ke.new)]
    /\ UNCHANGED <<mainVars, dzs, col, ps>>

\* lines 133-135
KE_HailKE ==
    /\ ke.stage = "hail_ke"
    /\ ke' = [ke EXCEPT !.stage = "done",
                        !.hail_ke = HailKE(KEArray(ke), ke.weights)]
    /\ UNCHANGED <<mainVars, dzs, col, ps>>

NextKE == KE_CBand \/ KE_Weights \/ KE_Clip \/ KE_HailKE

SpecKE == InitKE /\ [][NextKE]_vars

\* C6: the caller's reflectivity array holds the values it held before the
\* call: band correction and clipping act only on copies.
C6_CallerArrayUnchanged ==
    ke.stage # "idle" => ke.caller = ke.caller0

\* C8: the reflectivity weight of Z (the value after the optional band
\* correction) is in [0,1], is 0 for Z <= 40, 1 for Z >= 50, (Z-40)/10 in
\* between, and does not decrease when Z grows; the hail kinetic energy
\* 5e-6 * 10^(0.084*clip(Z,-100,100)) * W_Z is non-negative.
C8_WeightAndKE ==
    /\ ke.stage \in {"clip", "hail_ke", "done"} =>
          /\ ke.weights >= 0 /\ ke.weights <= Micro
          /\ ke.z_used <= 40 * Micro => ke.weights = 0
          /\ ke.z_used >= 50 * Micro => ke.weights = Micro
          /\ (ke.z_used > 40 * Micro /\ ke.z_used < 50 * Micro)
                => ke.weights * 10 = ke.z_used - 40 * Micro
          /\ \A z2 \in -MaxZ..MaxZ :
                z2 * Micro >= ke.z_used
                    => ReflectivityWeights(z2 * Micro) >= ke.weights
    /\ ke.stage = "done" =>
          /\ KESign(ke.hail_ke) >= 0
          /\ ke.hail_ke.weight = ke.weights
          /\ ke.hail_ke.scale = <<5, -6>>
          /\ LET c == IF ke.z_used > 100 * Micro THEN 100 * Micro
                      ELSE IF ke.z_used < -100 * Micro THEN -100 * Micro
                      ELSE ke.z_used
             IN  ke.hail_ke.pow10 = 84 * (c \div 1000)

C8_Witness ==
    /\ ke.stage = "done"
    /\ ke.radar_band = "C" /\ ke.correct_cband_refl
    /\ ke.z_used > 100 * Micro
    /\ ke.weights = Micro
    /\ ke.hail_ke.pow10 = 8400000

\* ======================================================================
\* SpecDz: lines 116-123 for sweep i of n_ppi sweeps.  An array is a record
\* [ndim, data]; z is the local of line 104, the 2-D height grid of the
\* current sweep alone (one height per cell, cells flattened).
\* ======================================================================
\* sweeps in the dz block are 2..MaxDzSweeps
MaxDzSweeps == 4
\* sweep heights are 0..MaxHeight
MaxHeight == 2

\* numpy subscripting arr[k, :, :]: more subscripts than dimensions raise
\* (a result is [err, v]: err when the expression raised IndexError)
Subscript3(arr, k) ==
    IF arr.ndim < DzSubscripts
    THEN [err |-> TRUE, v |-> 0]
    ELSE [err |-> FALSE, v |-> arr.data[k + 1]]

Minus(a, b) == [err |-> a.err \/ b.err, v |-> a.v - b.v]
Halved(a) == [err |-> a.err, v |-> a.v \div 2]
Unbound == [err |-> FALSE, v |-> 0]

\* lines 117-122: three independent if statements; an exception in one
\* ends the block
Dz(idx, n_ppi, zz) ==
    LET d1 == IF idx = 0
              THEN Minus(Subscript3(zz, idx + 1), Subscript3(zz, idx))
              ELSE Unbound
        d2 == IF d1.err THEN d1
              ELSE IF idx # 0 /\ idx # n_ppi - 1
              THEN Halved(Minus(Subscript3(zz, idx + 1), Subscript3(zz, idx - 1)))
              ELSE d1
    IN  IF d2.err THEN d2
        ELSE IF idx = n_ppi - 1
        THEN Minus(Subscript3(zz, idx), Subscript3(zz, idx - 1))
        ELSE d2

InitDz ==
    /\ \E n \in 2..MaxDzSweeps :
         \E idx \in 0..(n - 1), h \in [1..n -> 0..MaxHeight], alt \in 0..1 :
            dzs = [stage |-> "dz", i |-> idx, n_ppi |-> n,
                   radar_altitude |-> alt,
                   \* z_dataset as line 109 leaves it when sweep idx is
                   \* reached were every sweep appended: z + radar_altitude
                   heights |-> [k \in 1..n |-> 2 * h[k] + alt],
                   z |-> [ndim |-> AntennaToCartesianNdim(MeshgridNdim),
                          data |-> <<2 * h[idx + 1]>>],
                   dz |-> 0, raised |-> "none"]
    /\ pc = "idle" /\ radar_band = "S" /\ levels = "None"
    /\ mesh_method = "mh2019_75" /\ correct_cband_refl = TRUE
    /\ caller_elevation = <<>> /\ sort_idx = <<>>
    /\ reflectivity_dataset = <<>> /\ elevation_dataset = <<>>
    /\ i = 0 /\ z = "unset" /\ raised = "none" /\ steps = {}
    /\ ke = Idle /\ col = Idle /\ ps = Idle

\* lines 116-123
DzStep ==
    /\ dzs.stage = "dz"
    /\ LET d == Dz(dzs.i, dzs.n_ppi, dzs.z)
       IN  IF d.err
           THEN dzs' = [dzs EXCEPT !.stage = "done", !.raised = "IndexError"]
           ELSE dzs' = [dzs EXCEPT !.stage = "done", !.dz = d.v]
    /\ UNCHANGED <<mainVars, ke, col, ps>>

NextDz == DzStep

SpecDz == InitDz /\ [][NextDz]_vars

\* C10: dz of sweep i is computed from the per-sweep height fields:
\* z_1 - z_0 for the lowest sweep, z_{n-1} - z_{n-2} for the topmost,
\* (z_{i+1} - z_{i-1})/2 for an interior sweep.
C10_DzFromSweepHeights ==
    dzs.stage = "done" =>
        /\ dzs.raised = "none"
        /\ dzs.dz = IF dzs.i = 0
                    THEN dzs.heights[2] - dzs.heights[1]
                    ELSE IF dzs.i = dzs.n_ppi - 1
                    THEN dzs.heights[dzs.n_ppi] - dzs.heights[dzs.n_ppi - 1]
                    ELSE (dzs.heights[dzs.i + 2] - dzs.heights[dzs.i]) \div 2

\* ======================================================================
\* SpecColumn: lines 154-184.  The block "loop" is the statement sequence
\* 155-161 (grid allocation and the two for headers); the block "body" is
\* the loop body 162-184 for one cell (az_idx, rg_idx) of the lowest sweep.
\* Grids are flattened row-major: a sweep is a sequence of cells, each
\* [xy, valid, elem].  SHI elements are whole numbers; the SHI grid is kept
\* in tenths, so 0.1 * s is the number s.
\* ======================================================================
\* a float cell is NaN or a number; a local is unbound or a number
NaN == [kind |-> "nan", v |-> 0]
NoValue == [kind |-> "unbound", v |-> 0]
Num(n) == [kind |-> "num", v |-> n]

\* sweeps in the column block are 2..MaxColSweeps
MaxColSweeps == 3
\* line 164: number of subscripts in SHI_elements[0][az_idx, rg_idx]
SeedSubscripts == 2

Points == {<<0, 0>>, <<3, 1>>, <<1, 3>>}
UpperKinds == {[valid |-> FALSE, elem |-> 0], [valid |-> FALSE, elem |-> 3],
               [valid |-> TRUE, elem |-> 0], [valid |-> TRUE, elem |-> 2],
               [valid |-> TRUE, elem |-> -1]}
LowestKinds == {[valid |-> FALSE, elem |-> 3], [valid |-> TRUE, elem |-> 2],
                [valid |-> TRUE, elem |-> -1]}
Layouts == {<<<<0, 0>>, <<3, 1>>>>, <<<<3, 1>>, <<0, 0>>>>, <<<<1, 3>>, <<1, 3>>>>}

MkCell(p, k) == [xy |-> p, valid |-> k.valid, elem |-> k.elem]

UpperSweeps ==
    UNION {{[c \in 1..Len(l) |-> MkCell(l[c], ks[c])] :
                ks \in [1..Len(l) -> UpperKinds]} : l \in Layouts}

\* line 173: squared horizontal distance
Dist2(p, q) == (p[1] - q[1]) * (p[1] - q[1]) + (p[2] - q[2]) * (p[2] - q[2])

\* line 173: np.argmin returns the first index of the minimum
Closest(ground, sweep) ==
    CHOOSE c \in 1..Len(sweep) :
        /\ \A d \in 1..Len(sweep) :
              Dist2(ground, sweep[c].xy) <= Dist2(ground, sweep[d].xy)
        /\ \A d \in 1..(c - 1) :
              Dist2(ground, sweep[d].xy) > Dist2(ground, sweep[c].xy)

\* lines 171-181: the loop over the sweeps above the lowest
RECURSIVE AddSweeps(_, _, _, _)
AddSweeps(shi_value, ground, sweeps, sweep_idx) ==
    IF sweep_idx > Len(sweeps) - 1 THEN shi_value
    ELSE LET cell == sweeps[sweep_idx + 1][Closest(ground, sweeps[sweep_idx + 1])]
         IN  IF ~cell.valid
             THEN AddSweeps(shi_value, ground, sweeps, sweep_idx + 1)
             ELSE IF cell.elem = 0
             THEN AddSweeps(shi_value, ground, sweeps, sweep_idx + 1)
             ELSE AddSweeps(shi_value + cell.elem, ground, sweeps, sweep_idx + 1)

\* lines 163-166: SHI_elements is the array of the last loop iteration
\* (line 143); [0] selects its first row, leaving one dimension, which
\* [az_idx, rg_idx] then subscripts twice
SeedValue(c) ==
    IF c.sweeps[1][c.cell].valid
    THEN IF AntennaToCartesianNdim(MeshgridNdim) - 1 < SeedSubscripts
         THEN [err |-> TRUE, v |-> 0]
         ELSE [err |-> FALSE, v |-> c.sweeps[Len(c.sweeps)][1].elem]
    ELSE [err |-> FALSE, v |-> 0]

InitColumn ==
    /\ \E n0 \in 1..2, p \in Points, k \in LowestKinds, b \in {"loop", "body"} :
         \E c0 \in 1..n0, s2 \in UpperSweeps, more \in {<<>>} \cup {<<u>> : u \in UpperSweeps} :
            /\ Len(more) + 2 <= MaxColSweeps
            /\ col = [stage |-> b, cell |-> c0,
                      sweeps |-> <<[c \in 1..n0 |->
                                       IF c = c0 THEN MkCell(p, k)
                                       ELSE MkCell(<<0, 0>>, [valid |-> FALSE, elem |-> 0])],
                                   s2>> \o more,
                      shi_value |-> NoValue,
                      shi |-> [c \in 1..n0 |-> NaN],
                      raised |-> "none"]
    /\ pc = "idle" /\ radar_band = "S" /\ levels = "None"
    /\ mesh_method = "mh2019_75" /\ correct_cband_refl = TRUE
    /\ caller_elevation = <<>> /\ sort_idx = <<>>
    /\ reflectivity_dataset = <<>> /\ elevation_dataset = <<>>
    /\ i = 0 /\ z = "unset" /\ raised = "none" /\ steps = {}
    /\ ke = Idle /\ dzs = Idle /\ ps = Idle

\* lines 155-161: range() is called with the azimuth array of the lowest
\* sweep, which is no integer
Col_Loop ==
    /\ col.stage = "loop"
    /\ col' = [col EXCEPT !.stage = "done", !.raised = "TypeError_range"]
    /\ UNCHANGED <<mainVars, ke, dzs, ps>>

\* line 184: shi[az_idx, rg_idx] = 0.1 * shi assigns the whole grid (all
\* NaN at this point) to one element.  numpy refuses an array of more than
\* one element; a one-element array is converted (the cell becomes NaN) by
\* numpy versions that still allow it and refused by the others.
Col_Store(c, v) ==
    IF v > 0
    THEN {[c EXCEPT !.stage = "done", !.shi_value = Num(v),
                    !.raised = "ValueError_store"]}
         \cup (IF Len(c.shi) = 1
               THEN {[c EXCEPT !.stage = "done", !.shi_value = Num(v),
                               !.shi[c.cell] = c.shi[1]]}
               ELSE {})
    ELSE {[c EXCEPT !.stage = "done", !.shi_value = Num(v)]}

\* lines 162-184 for the cell col.cell
Col_Body ==
    /\ col.stage = "body"
    /\ LET seed == SeedValue(col)
       IN  IF seed.err
           THEN col' = [col EXCEPT !.stage = "done", !.raised = "IndexError_seed"]
           ELSE col' \in Col_Store(col,
                    AddSweeps(seed.v, col.sweeps[1][col.cell].xy, col.sweeps, 1))
    /\ UNCHANGED <<mainVars, ke, dzs, ps>>

NextColumn == Col_Loop \/ Col_Body

SpecColumn == InitColumn /\ [][NextColumn]_vars

\* the column sum the specification describes for the cell
RECURSIVE SumAbove(_, _, _)
SumAbove(ground, sweeps, k) ==
    IF k > Len(sweeps) THEN 0
    ELSE LET near == sweeps[k][Closest(ground, sweeps[k])]
         IN  (IF near.valid /\ near.elem # 0 THEN near.elem ELSE 0)
                 + SumAbove(ground, sweeps, k + 1)

ColumnSum(c) ==
    LET own == c.sweeps[1][c.cell]
    IN  (IF own.valid THEN own.elem ELSE 0) + SumAbove(own.xy, c.sweeps, 2)

\* C9: the column sum of a cell is its own SHI element (when the lowest
\* sweep is valid there, else 0), taken from sweep 0's element array, plus
\* the SHI element of the nearest cell of every higher sweep that is valid
\* and not zero.
C9_ColumnSum ==
    (col.stage = "done" /\ col.raised # "TypeError_range")
        => col.shi_value = Num(ColumnSum(col))

\* C4: a cell whose column sum is strictly positive holds 0.1 times that
\* sum; every other cell is missing (the seed subscript of C9 left aside).
C4_CellIsTenthOfSum ==
    (col.stage = "done" /\ col.raised \notin {"TypeError_range", "IndexError_seed"})
        => /\ col.raised = "none"
           /\ col.shi[col.cell] = IF ColumnSum(col) > 0 THEN Num(ColumnSum(col)) ELSE NaN

\* ======================================================================
\* SpecPosh: lines 72 and 211-218 for one cell of the SHI grid.
\* Heights are counted in units of 1/23 m, so that the warning threshold
\* WT = 57.5 * (meltlayer / 1000) - 121 is the exact fraction
\* (5 * meltlayer - 242000) / 2000 and can be zero.  Logarithms and POSH
\* are fixed-point numbers in thousandths.  A float is [kind, v] with kind
\* "num", "nan", "pinf" or "ninf".
\* ======================================================================
\* SHI cell values are NaN and -1..MaxShi
MaxShi == 12
\* level heights give WT = j/2 for j in -MaxWT..MaxWT
MaxWT == 4

PInf == [kind |-> "pinf", v |-> 0]
NInf == [kind |-> "ninf", v |-> 0]

LevelHeights == {48400 + 200 * j : j \in -MaxWT..MaxWT}

\* line 72: np.min(levels)
MeltLayer(l) == IF l[1] <= l[2] THEN l[1] ELSE l[2]

\* line 212, times 2000
WTx2000(meltlayer) == 5 * meltlayer - 242000

\* line 215: shi / WT in float arithmetic; a finite quotient is kept as the
\* fraction v[1] / v[2] with v[2] > 0
Quotient(shi, wt) ==
    IF shi.kind = "nan" THEN NaN
    ELSE IF wt = 0
    THEN (IF shi.v > 0 THEN PInf ELSE IF shi.v < 0 THEN NInf ELSE NaN)
    ELSE IF wt > 0 THEN Num(<<shi.v * 2000, wt>>)
    ELSE Num(<<-(shi.v * 2000), -wt>>)

\* natural logarithm of n/d > 0 in thousandths: ln 2 = 0.693 for every
\* halving or doubling into [1,2), then 2*atanh((x-1)/(x+1)) by its series
RECURSIVE LnMilli(_, _)
LnMilli(n, d) ==
    IF n >= 2 * d THEN 693 + LnMilli(n, 2 * d)
    ELSE IF n < d THEN LnMilli(2 * n, d) - 693
    ELSE LET y == ((n - d) * 10000) \div (n + d)
             y3 == (((y * y) \div 10000) * y) \div 10000
             y5 == (((y3 * y) \div 10000) * y) \div 10000
         IN  (2 * (y + y3 \div 3 + y5 \div 5)) \div 10

\* common.safe_log: the results its contract allows.  A positive argument
\* gives its logarithm; a missing argument stays missing; for an argument
\* that is zero or negative the contract only promises some value with a
\* real part.
SafeLog(q) ==
    IF q.kind = "nan" THEN {NaN}
    ELSE IF q.kind = "pinf" THEN {PInf}
    ELSE IF q.kind = "ninf" THEN {NInf, Num(-10000)}
    ELSE IF q.v[1] > 0 THEN {Num(LnMilli(q.v[1], q.v[2]))}
    ELSE IF q.v[1] = 0 THEN {NInf, Num(-10000)}
    ELSE {NInf, Num(-10000), Num(LnMilli(-q.v[1], q.v[2]))}

\* line 215-216: 29 * log + 50, real part
PoshRaw(l) == IF l.kind = "num" THEN Num(29 * l.v + 50000) ELSE l

PoshClip_noCeiling(p) ==
    IF p.kind = "ninf" \/ (p.kind = "num" /\ p.v < 0) THEN Num(0) ELSE p

\* lines 217-218: masked assignments; a comparison with NaN is false
PoshClip(p) ==
    LET lo == IF p.kind = "ninf" \/ (p.kind = "num" /\ p.v < 0) THEN Num(0) ELSE p
    IN  IF lo.kind = "pinf" \/ (lo.kind = "num" /\ lo.v > 100000)
        THEN Num(100000) ELSE lo

InitPosh ==
    /\ \E l \in LevelHeights \X LevelHeights,
          sh \in {NaN} \cup {Num(n) : n \in -1..MaxShi} :
            ps = [stage |-> "levels", levels |-> l, shi |-> sh,
                  meltlayer |-> 0, WT |-> 0, posh |-> NaN]
    /\ pc = "idle" /\ radar_band = "S" /\ levels = "None"
    /\ mesh_method = "mh2019_75" /\ correct_cband_refl = TRUE
    /\ caller_elevation = <<>> /\ sort_idx = <<>>
    /\ reflectivity_dataset = <<>> /\ elevation_dataset = <<>>
    /\ i = 0 /\ z = "unset" /\ raised = "none" /\ steps = {}
    /\ ke = Idle /\ dzs = Idle /\ col = Idle

\* line 72
Posh_Levels ==
    /\ ps.stage = "levels"
    /\ ps' = [ps EXCEPT !.stage = "WT", !.meltlayer = MeltLayer(ps.levels)]
    /\ UNCHANGED <<mainVars, ke, dzs, col>>

\* lines 211-212
Posh_WT ==
    /\ ps.stage = "WT"
    /\ ps' = [ps EXCEPT !.stage = "posh", !.WT = WTx2000(ps.meltlayer)]
    /\ UNCHANGED <<mainVars, ke, dzs, col>>

\* lines 214-216
Posh_Log ==
    /\ ps.stage = "posh"
    /\ \E l \in SafeLog(Quotient(ps.shi, ps.WT)) :
          ps' = [ps EXCEPT !.stage = "clip", !.posh = PoshRaw(l)]
    /\ UNCHANGED <<mainVars, ke, dzs, col>>

\* lines 217-218
Posh_Clip ==
    /\ ps.stage = "clip"
    /\ ps' = [ps EXCEPT !.stage = "done", !.posh = PoshClip(ps.posh)]
    /\ UNCHANGED <<mainVars, ke, dzs, col>>

NextPosh == Posh_Levels \/ Posh_WT \/ Posh_Log \/ Posh_Clip

SpecPosh == InitPosh /\ [][NextPosh]_vars

\* C7 as stated: every POSH cell lies in [0,100], for every SHI and WT,
\* cells with SHI zero or missing and WT negative or zero included.
C7_PoshInRange ==
    ps.stage = "done" => (ps.posh.kind = "num" /\ ps.posh.v \in 0..100000)

\* C7 amended: every POSH cell is missing or lies in [0,100], and it lies
\* in [0,100] whenever SHI / WT is not NaN, that is whenever SHI is present
\* and not zero together with WT (WT negative or zero included).
C7_PoshInRangeOrMissing ==
    ps.stage = "done" =>
        \/ ps.posh.kind = "num" /\ ps.posh.v \in 0..100000
        \/ /\ ps.posh = NaN
           /\ ps.shi = NaN \/ (ps.shi = Num(0) /\ 5 * ps.meltlayer = 242000)

C7_Witness ==
    /\ ps.stage = "done"
    /\ ps.shi.kind = "num" /\ ps.shi.v > 0
    /\ 5 * ps.meltlayer < 242000
    /\ ps.levels[1] > ps.levels[2]
    /\ ps.posh = Num(0)

====
